---- MODULE Spec2Model ----
(***************************************************************************)
(* A model of LightWeightOrcha: the segment orchestrator (orchestrator.py, *)
(* class LWOrchestrator) and the local-disk persistence layer              *)
(* (disk_writer.py, class DiskInteractions).                               *)
(*                                                                         *)
(* Strings that the code takes apart (paths, file names) are sequences of  *)
(* tokens whose concatenation is the string; "/" and "." are tokens of     *)
(* their own, and no other token contains either character.                *)
(***************************************************************************)
EXTENDS Integers, Sequences, FiniteSets, TLC

VARIABLES
    pc,              \* position of the orchestrator: New, NoInstance, Idle, Running, Aggregated, Writing, Completed, Failed
    segment_list,    \* self.segment_list
    batch_id,        \* self.batch_id
    base_path,       \* self.base_path (a pathlib.Path; its string, as tokens)
    results_channel, \* self.results_channel
    module_mapping,  \* self.module_mapping: process name -> run commands its handler exposes
    module_id_list,  \* self.module_id_list (supplied by the caller, see Construct)
    run_config,      \* self.run_config     (supplied by the caller, see Construct)
    idx,             \* run_segment: position of the for loop in module_id_list
    results,         \* run_segment: the local dict `results`
    invoked,         \* history: the invocations run_process completed, in order
    retry_calls,     \* history: the arguments retry_msg was called with
    calls,           \* history: the backend write calls of the interactor
    error,           \* the exception that left the constructor or run_segment, "" if none
    runs,            \* number of run_segment calls started on the instance
    args,            \* history: the arguments the constructor was called with
    fs,              \* the filesystem: [dirs: set of paths, files: path -> content]
    last,            \* DiskInteractions: the last public call and its outcome
    ops              \* number of DiskInteractions calls made

vars == <<pc, segment_list, batch_id, base_path, results_channel, module_mapping,
          module_id_list, run_config, idx, results, invoked, retry_calls, calls,
          error, runs, args, fs, last, ops>>

orch_vars == <<pc, segment_list, batch_id, base_path, results_channel, module_mapping,
               module_id_list, run_config, idx, results, invoked, retry_calls, calls,
               error, runs, args>>

----------------------------------------------------------------------------
(* Bounds of the model.                                                    *)

MaxProcs == 2       \* longest module_id_list
MaxRuns == 2        \* run_segment calls on one instance
MaxBatch == 2       \* longest list handed to a batch operation
MaxOps == 2         \* single-file and directory calls in one behaviour
MaxBatchOps == 1    \* batch calls in one behaviour

----------------------------------------------------------------------------
(* Python values.                                                          *)

None == "<None>"            \* the value None
NotPassed == "<not passed>" \* an argument the caller leaves out
NoError == ""

\* str(x) inside an f-string
Str(x) == IF x = None THEN "None" ELSE x

EmptyDict == [k \in {} |-> None]

\* an empty dict is falsy, any other dict is truthy
Truthy(d) == DOMAIN d # {}

\* dict.get(key, default)
DictGet(d, key, default) == IF key \in DOMAIN d THEN d[key] ELSE default

\* a Python object handed to the persistence layer: its type, the type of
\* its keys (dict) and its items
PyObj(t, k, items) == [type |-> t, keys |-> k, items |-> items]
PyDict(items) == PyObj("dict", "str", items)

\* a file name argument: a str or a pathlib.Path (or another object)
PyStr(toks) == [type |-> "str", s |-> toks]
PyPath(toks) == [type |-> "Path", s |-> toks]

----------------------------------------------------------------------------
(* os.path on token sequences.                                             *)

Sep == "/"
Dot == "."

SepPositions(p) == {i \in 1..Len(p) : p[i] = Sep}

LastSep(p) == IF SepPositions(p) = {} THEN 0
              ELSE CHOOSE i \in SepPositions(p) : \A j \in SepPositions(p) : j <= i

\* os.path.split: (head, tail), tail has no separator
os_path_split(p) ==
    LET i == LastSep(p)
    IN  IF i = 0 THEN <<<< >>, p>>
        ELSE <<SubSeq(p, 1, i - 1), SubSeq(p, i + 1, Len(p))>>

os_path_basename(p) == os_path_split(p)[2]

os_path_dirname(p) == os_path_split(p)[1]

\* os.path.join(a, b) for a relative b
os_path_join(a, b) == IF a = << >> THEN b ELSE a \o <<Sep>> \o b

\* str.endswith
EndsWith(s, suffix) ==
    /\ Len(s) >= Len(suffix)
    /\ SubSeq(s, Len(s) - Len(suffix) + 1, Len(s)) = suffix

\* "_".join(list)
RECURSIVE UnderscoreJoin(_)
UnderscoreJoin(l) ==
    IF l = << >> THEN << >>
    ELSE IF Len(l) = 1 THEN <<l[1]>>
    ELSE <<l[1], "_">> \o UnderscoreJoin(Tail(l))

\* os.path.splitext: the extension starts at the last dot of the base name,
\* leading dots of the base name apart
os_path_splitext(p) ==
    LET b == LastSep(p) + 1
        dots == {i \in b..Len(p) : p[i] = Dot /\ \E j \in b..(i - 1) : p[j] # Dot}
    IN  IF dots = {} THEN <<p, << >> >>
        ELSE LET i == CHOOSE d \in dots : \A e \in dots : e <= d
             IN  <<SubSeq(p, 1, i - 1), SubSeq(p, i, Len(p))>>

DotJson == <<Dot, "json">>
DotCsv == <<Dot, "csv">>

----------------------------------------------------------------------------
(* The filesystem. The working directory is the empty path and always      *)
(* exists; every other path is relative to it.                             *)

Cwd == << >>

NoFiles == [p \in {} |-> None]

IsDir(f, p) == p = Cwd \/ p \in f.dirs
IsFile(f, p) == p \in DOMAIN f.files

\* os.path.exists
os_path_exists(f, p) == IsDir(f, p) \/ IsFile(f, p)

Entries(f) == f.dirs \cup DOMAIN f.files

\* the entries directly inside a directory
Children(f, p) == {q \in Entries(f) : q # Cwd /\ os_path_dirname(q) = p}

\* the entries at or below a path
Below(f, p) == {q \in Entries(f) :
                   \E n \in 0..Len(q) : SubSeq(q, 1, n) = p /\ (n = Len(q) \/ q[n + 1] = Sep)}

PutFile(f, p, c) ==
    [f EXCEPT !.files = [q \in DOMAIN f.files \cup {p} |-> IF q = p THEN c ELSE f.files[q]]]

RemoveFiles(f, ps) ==
    [f EXCEPT !.files = [q \in DOMAIN f.files \ ps |-> f.files[q]]]

\* what open(p, "w") raises, NoError when it opens (and truncates) the file
OpenForWriteError(f, p) ==
    IF ~IsDir(f, os_path_dirname(p))
    THEN IF IsFile(f, os_path_dirname(p)) THEN "NotADirectoryError" ELSE "FileNotFoundError"
    ELSE IF IsDir(f, p) THEN "IsADirectoryError"
    ELSE NoError

\* what open(p, "r") raises
OpenForReadError(f, p) ==
    IF IsDir(f, p) THEN "IsADirectoryError"
    ELSE IF ~IsFile(f, p) THEN "FileNotFoundError"
    ELSE NoError

\* the content of a file: its encoding and the object a decoder gets back
Content(enc, t, k, items) == [enc |-> enc, type |-> t, keys |-> k, items |-> items]

\* a file opened for writing and not written to
Truncated == Content("empty", "", "", EmptyDict)

\* json.dump accepts dicts with str or int keys; int keys are written as strings
JsonSerializable(d) == d.type = "dict" /\ d.keys \in {"str", "int"}
JsonDump(d) == Content("json", "dict", "str", d.items)

\* DataFrame.to_csv(index=False): the header and the values as text; the types
\* of the columns are not written
CsvDump(d) == Content("csv", d.type, "text", d.items)

JoblibDump(d) == Content("pickle", d.type, d.keys, d.items)

----------------------------------------------------------------------------
(* DiskInteractions: writing.                                              *)

\* datetime.utcnow().strftime('%Y.%m.%d_%H.%M.%S') at the time of the calls
Timestamps == {"2024.01.01_00.00.00"}

\* file names os.path accepts
PathLike(name) == name.type \in {"str", "Path"}

_set_upload_file_name(file_name, now) ==
    LET parts == os_path_splitext(file_name.s)
    IN  IF PathLike(file_name)
        THEN [exc |-> NoError, name |-> PyStr(parts[1] \o <<"_", now>> \o parts[2])]
        ELSE [exc |-> "TypeError", name |-> file_name]

_ret_result_or_bool(ret_result, result_when_true, result_when_false) ==
    IF ret_result THEN result_when_true ELSE result_when_false

_write_json_data(f, data_out, file_name) ==
    LET e == OpenForWriteError(f, file_name)
    IN  IF e # NoError THEN [fs |-> f, exc |-> e]
        ELSE IF ~JsonSerializable(data_out)
        THEN [fs |-> PutFile(f, file_name, Truncated), exc |-> "TypeError"]
        ELSE [fs |-> PutFile(f, file_name, JsonDump(data_out)), exc |-> NoError]

_write_csv_data(f, data_out, file_name) ==
    IF data_out.type # "DataFrame" THEN [fs |-> f, exc |-> "AttributeError"]
    ELSE LET e == OpenForWriteError(f, file_name)
         IN  IF e # NoError THEN [fs |-> f, exc |-> "OSError"]
             ELSE [fs |-> PutFile(f, file_name, CsvDump(data_out)), exc |-> NoError]

_write_obj_data(f, data_out, file_name) ==
    LET e == OpenForWriteError(f, file_name)
    IN  IF e # NoError THEN [fs |-> f, exc |-> e]
        ELSE [fs |-> PutFile(f, file_name, JoblibDump(data_out)), exc |-> NoError]

\* a dispatch on the type of the payload instead of the name
_write_fun_from_payload_type(f, file_name, data_out) ==
    IF file_name.type # "str" THEN [fs |-> f, exc |-> "AttributeError"]
    ELSE IF data_out.type = "dict" THEN _write_json_data(f, data_out, file_name.s)
    ELSE IF data_out.type = "DataFrame" THEN _write_csv_data(f, data_out, file_name.s)
    ELSE _write_obj_data(f, data_out, file_name.s)

\* file_name.endswith exists on str only
_write_fun_from_file_extension(f, file_name, data_out) ==
    IF file_name.type # "str" THEN [fs |-> f, exc |-> "AttributeError"]
    ELSE IF EndsWith(file_name.s, DotJson) THEN _write_json_data(f, data_out, file_name.s)
    ELSE IF EndsWith(file_name.s, DotCsv) THEN _write_csv_data(f, data_out, file_name.s)
    ELSE _write_obj_data(f, data_out, file_name.s)

_write_file(f, file_name, data_out) ==
    LET w == _write_fun_from_file_extension(f, file_name, data_out)
    IN  [fs |-> w.fs, ret |-> (w.exc = NoError)]

\* [fs, ret, exc]: the filesystem after the call, the value returned, and the
\* exception that left the call (NoError when it returned)
write_file_to_disk(f, data_out, file_name, include_datetime, ret_result, now) ==
    LET up == IF include_datetime THEN _set_upload_file_name(file_name, now)
              ELSE [exc |-> NoError, name |-> file_name]
        w == _write_file(f, up.name, data_out)
    IN  IF up.exc # NoError THEN [fs |-> f, ret |-> FALSE, exc |-> up.exc]
        ELSE IF w.ret
        THEN [fs |-> w.fs, ret |-> _ret_result_or_bool(ret_result, w.ret, TRUE), exc |-> NoError]
        ELSE [fs |-> w.fs, ret |-> _ret_result_or_bool(ret_result, w.ret, FALSE), exc |-> NoError]

----------------------------------------------------------------------------
(* DiskInteractions: reading.                                              *)

\* the value None as an object read or returned
NoneObj == PyObj("NoneType", "", EmptyDict)

\* pd.read_csv: the frame the csv text gives, its columns typed by the hints
\* when there are any and by what the text lets the reader infer otherwise
CsvFrame(c, dtype_dict) ==
    PyObj("DataFrame", IF dtype_dict = None THEN "inferred" ELSE dtype_dict, c.items)

\* [data, exc] of each reader
_read_json_data(f, file_name) ==
    LET e == OpenForReadError(f, file_name)
    IN  IF e # NoError THEN [data |-> NoneObj, exc |-> e]
        ELSE IF f.files[file_name].enc # "json"
        THEN [data |-> NoneObj, exc |-> "JSONDecodeError"]
        ELSE [data |-> PyObj(f.files[file_name].type, f.files[file_name].keys,
                             f.files[file_name].items),
              exc |-> NoError]

\* a csv reader that does not hand the type hints on
_read_csv_data_ignoring_hints(f, file_name, dtype_dict) ==
    LET e == OpenForReadError(f, file_name)
    IN  IF e # NoError THEN [data |-> NoneObj, exc |-> e]
        ELSE IF f.files[file_name].enc # "csv"
        THEN [data |-> NoneObj, exc |-> "ParserError"]
        ELSE [data |-> CsvFrame(f.files[file_name], None), exc |-> NoError]

_read_csv_data(f, file_name, dtype_dict) ==
    LET e == OpenForReadError(f, file_name)
    IN  IF e # NoError THEN [data |-> NoneObj, exc |-> e]
        ELSE IF f.files[file_name].enc # "csv"
        THEN [data |-> NoneObj, exc |-> "ParserError"]
        ELSE [data |-> CsvFrame(f.files[file_name], dtype_dict), exc |-> NoError]

_read_obj_data(f, file_name) ==
    LET e == OpenForReadError(f, file_name)
    IN  IF e # NoError THEN [data |-> NoneObj, exc |-> e]
        ELSE IF f.files[file_name].enc # "pickle"
        THEN [data |-> NoneObj, exc |-> "UnpicklingError"]
        ELSE [data |-> PyObj(f.files[file_name].type, f.files[file_name].keys,
                             f.files[file_name].items),
              exc |-> NoError]

_read_fun_from_file_extension(f, file_name, dtype_dict) ==
    IF file_name.type # "str" THEN [data |-> NoneObj, exc |-> "AttributeError"]
    ELSE IF EndsWith(file_name.s, DotJson) THEN _read_json_data(f, file_name.s)
    ELSE IF EndsWith(file_name.s, DotCsv) THEN _read_csv_data(f, file_name.s, dtype_dict)
    ELSE _read_obj_data(f, file_name.s)

\* the pair (data, ok)
_read_file(f, file_name, dtype_dict) ==
    LET r == _read_fun_from_file_extension(f, file_name, dtype_dict)
    IN  IF r.exc = NoError THEN [data |-> r.data, ok |-> TRUE]
        ELSE [data |-> NoneObj, ok |-> FALSE]

read_file_from_disk(f, file_name, dtype_dict) == _read_file(f, file_name, dtype_dict).data

----------------------------------------------------------------------------
(* DiskInteractions: deleting files.                                       *)

\* a delete that reports a missing file as a failure
_delete_file_failing_on_absent(f, file_name) ==
    IF ~PathLike(file_name) THEN [fs |-> f, ret |-> FALSE]
    ELSE IF ~os_path_exists(f, file_name.s) THEN [fs |-> f, ret |-> FALSE]
    ELSE IF IsDir(f, file_name.s) THEN [fs |-> f, ret |-> FALSE]
    ELSE [fs |-> RemoveFiles(f, {file_name.s}), ret |-> TRUE]

\* os.path.exists raises TypeError on an object that is no path; os.remove
\* raises on a directory
_delete_file(f, file_name) ==
    IF ~PathLike(file_name) THEN [fs |-> f, ret |-> FALSE]
    ELSE IF ~os_path_exists(f, file_name.s) THEN [fs |-> f, ret |-> TRUE]
    ELSE IF IsDir(f, file_name.s) THEN [fs |-> f, ret |-> FALSE]
    ELSE [fs |-> RemoveFiles(f, {file_name.s}), ret |-> TRUE]

delete_file_from_disk(f, file_name, ret_result) ==
    LET d == _delete_file(f, file_name)
    IN  IF d.ret
        THEN [fs |-> d.fs, ret |-> _ret_result_or_bool(ret_result, d.ret, TRUE)]
        ELSE [fs |-> d.fs, ret |-> _ret_result_or_bool(ret_result, d.ret, FALSE)]

----------------------------------------------------------------------------
(* DiskInteractions: directories.                                          *)

\* values a method returns: a bool, or None when it falls off its end
Bool(b) == [type |-> "bool", val |-> b]
NoneRet == [type |-> "NoneType", val |-> FALSE]

\* the path and the directories above it, the working directory apart
Ancestors(p) == {SubSeq(p, 1, n) : n \in {m \in 1..Len(p) : m = Len(p) \/ p[m + 1] = Sep}}

\* what os.mkdir raises
MkdirError(f, p) ==
    IF os_path_exists(f, p) THEN "FileExistsError"
    ELSE IF IsFile(f, os_path_dirname(p)) THEN "NotADirectoryError"
    ELSE IF ~IsDir(f, os_path_dirname(p)) THEN "FileNotFoundError"
    ELSE NoError

\* a create_directory that reports success on a path that is there already
create_directory_exist_ok(f, directory_path) ==
    IF ~os_path_exists(f, directory_path)
    THEN IF MkdirError(f, directory_path) = NoError
         THEN [fs |-> [f EXCEPT !.dirs = @ \cup {directory_path}], ret |-> Bool(TRUE),
               exc |-> NoError]
         ELSE [fs |-> f, ret |-> Bool(FALSE), exc |-> NoError]
    ELSE [fs |-> f, ret |-> Bool(TRUE), exc |-> NoError]

\* [fs, ret, exc] of each method
create_directory(f, directory_path) ==
    IF ~os_path_exists(f, directory_path)
    THEN IF MkdirError(f, directory_path) = NoError
         THEN [fs |-> [f EXCEPT !.dirs = @ \cup {directory_path}], ret |-> Bool(TRUE),
               exc |-> NoError]
         ELSE [fs |-> f, ret |-> Bool(FALSE), exc |-> NoError]
    ELSE [fs |-> f, ret |-> Bool(FALSE), exc |-> NoError]

\* os.makedirs creates the missing levels and raises, before it creates any,
\* when the deepest existing level is a file; the branch for an existing path
\* has no return statement
create_multilevel_directories(f, directory_path) ==
    IF ~os_path_exists(f, directory_path)
    THEN IF \E a \in Ancestors(directory_path) : IsFile(f, a)
         THEN [fs |-> f, ret |-> Bool(FALSE), exc |-> NoError]
         ELSE [fs |-> [f EXCEPT !.dirs = @ \cup Ancestors(directory_path)],
               ret |-> Bool(TRUE), exc |-> NoError]
    ELSE [fs |-> f, ret |-> NoneRet, exc |-> NoError]

\* os.listdir raises on a path that is missing or a file, and nothing catches it
list_files_in_directory(f, directory_path, files_only) ==
    IF ~os_path_exists(f, directory_path)
    THEN [fs |-> f, ret |-> [type |-> "list", names |-> {}], exc |-> "FileNotFoundError"]
    ELSE IF IsFile(f, directory_path)
    THEN [fs |-> f, ret |-> [type |-> "list", names |-> {}], exc |-> "NotADirectoryError"]
    ELSE [fs |-> f,
          ret |-> [type |-> "list",
                   names |-> {os_path_basename(q) :
                                q \in {c \in Children(f, directory_path) :
                                          files_only => IsFile(f, os_path_join(directory_path,
                                                                   os_path_basename(c)))}}],
          exc |-> NoError]

\* a delete_empty_directory that removes the directory with what it holds
delete_empty_directory_with_contents(f, directory_path) ==
    IF os_path_exists(f, directory_path)
    THEN IF IsFile(f, directory_path) THEN [fs |-> f, ret |-> Bool(FALSE), exc |-> NoError]
         ELSE [fs |-> [dirs |-> f.dirs \ Below(f, directory_path),
                       files |-> RemoveFiles(f, Below(f, directory_path)).files],
               ret |-> Bool(TRUE), exc |-> NoError]
    ELSE [fs |-> f, ret |-> Bool(FALSE), exc |-> NoError]

\* except OSError catches what os.listdir and os.rmdir raise
delete_empty_directory(f, directory_path) ==
    IF os_path_exists(f, directory_path)
    THEN LET l == list_files_in_directory(f, directory_path, FALSE)
         IN  IF l.exc # NoError THEN [fs |-> f, ret |-> Bool(FALSE), exc |-> NoError]
             ELSE IF l.ret.names = {}
             THEN [fs |-> [f EXCEPT !.dirs = @ \ {directory_path}], ret |-> Bool(TRUE),
                   exc |-> NoError]
             ELSE [fs |-> f, ret |-> Bool(FALSE), exc |-> NoError]
    ELSE [fs |-> f, ret |-> Bool(FALSE), exc |-> NoError]

\* a delete_directory that removes the directory and leaves what it holds
delete_directory_keeping_contents(f, directory_path) ==
    IF os_path_exists(f, directory_path)
    THEN IF IsFile(f, directory_path) THEN [fs |-> f, ret |-> Bool(FALSE), exc |-> NoError]
         ELSE [fs |-> [f EXCEPT !.dirs = @ \ {directory_path}],
               ret |-> Bool(TRUE), exc |-> NoError]
    ELSE [fs |-> f, ret |-> Bool(FALSE), exc |-> NoError]

\* shutil.rmtree raises NotADirectoryError, an OSError, on a file
delete_directory(f, directory_path) ==
    IF os_path_exists(f, directory_path)
    THEN IF IsFile(f, directory_path) THEN [fs |-> f, ret |-> Bool(FALSE), exc |-> NoError]
         ELSE [fs |-> [dirs |-> f.dirs \ Below(f, directory_path),
                       files |-> RemoveFiles(f, Below(f, directory_path)).files],
               ret |-> Bool(TRUE), exc |-> NoError]
    ELSE [fs |-> f, ret |-> Bool(FALSE), exc |-> NoError]

----------------------------------------------------------------------------
(* DiskInteractions: batches.                                              *)

\* an assignment that keeps the value a key already has
DictSetKeepingFirst(d, k, v) ==
    IF k \in DOMAIN d THEN d ELSE [x \in DOMAIN d \cup {k} |-> IF x = k THEN v ELSE d[x]]

\* d[k] = v
DictSet(d, k, v) == [x \in DOMAIN d \cup {k} |-> IF x = k THEN v ELSE d[x]]

\* an entry of the list read_files_from_disk takes: a name, or a tuple of a
\* name and type hints
PyTuple(toks, hints) == [type |-> "tuple", s |-> toks, hints |-> hints]

\* The loops. Each assignment return_data[os.path.basename(x)] = call(...)
\* makes the call first and takes the base name second; os.path.basename
\* raises TypeError on an object that is no path. [fs, ret, exc, attempted]:
\* attempted lists the names the single-file method was called with.
RECURSIVE WriteLoop(_, _, _, _, _, _, _)
WriteLoop(f, entries, return_data, attempted, include_datetime, ret_result, now) ==
    IF entries = << >>
    THEN [fs |-> f, ret |-> return_data, exc |-> NoError, attempted |-> attempted]
    ELSE LET file_name == entries[1][1]
             data_out == entries[1][2]
             w == write_file_to_disk(f, data_out, file_name, include_datetime, ret_result, now)
         IN  IF w.exc # NoError
             THEN [fs |-> w.fs, ret |-> return_data, exc |-> w.exc,
                   attempted |-> Append(attempted, file_name)]
             ELSE IF ~PathLike(file_name)
             THEN [fs |-> w.fs, ret |-> return_data, exc |-> "TypeError",
                   attempted |-> Append(attempted, file_name)]
             ELSE WriteLoop(w.fs, Tail(entries),
                            DictSet(return_data, os_path_basename(file_name.s), Bool(w.ret)),
                            Append(attempted, file_name), include_datetime, ret_result, now)

write_files_to_disk(f, file_name_to_data_out_list, include_datetime, ret_result, now) ==
    WriteLoop(f, file_name_to_data_out_list, EmptyDict, << >>, include_datetime,
              ret_result, now)

RECURSIVE ReadLoop(_, _, _, _)
ReadLoop(f, files, return_data, attempted) ==
    IF files = << >>
    THEN [fs |-> f, ret |-> return_data, exc |-> NoError, attempted |-> attempted]
    ELSE LET file == files[1]
             file_name == IF file.type = "tuple" THEN PyStr(file.s) ELSE file
             dtype_dict == IF file.type = "tuple" THEN file.hints ELSE None
             data == read_file_from_disk(f, file_name, dtype_dict)
         IN  IF ~PathLike(file)
             THEN [fs |-> f, ret |-> return_data, exc |-> "TypeError",
                   attempted |-> Append(attempted, file_name)]
             ELSE ReadLoop(f, Tail(files),
                           DictSet(return_data, os_path_basename(file.s), data),
                           Append(attempted, file_name))

read_files_from_disk(f, files) == ReadLoop(f, files, EmptyDict, << >>)

RECURSIVE DeleteLoop(_, _, _, _, _)
DeleteLoop(f, files, return_data, attempted, ret_result) ==
    IF files = << >>
    THEN [fs |-> f, ret |-> return_data, exc |-> NoError, attempted |-> attempted]
    ELSE LET file == files[1]
             d == delete_file_from_disk(f, file, ret_result)
         IN  IF ~PathLike(file)
             THEN [fs |-> d.fs, ret |-> return_data, exc |-> "TypeError",
                   attempted |-> Append(attempted, file)]
             ELSE DeleteLoop(d.fs, Tail(files),
                             DictSet(return_data, os_path_basename(file.s), Bool(d.ret)),
                             Append(attempted, file), ret_result)

delete_files_from_disk(f, files, ret_result) ==
    DeleteLoop(f, files, EmptyDict, << >>, ret_result)

----------------------------------------------------------------------------
(* LWOrchestrator: construction.                                           *)

DefaultBatchId == "batch_1"
DefaultResultsChannel == "blob_storage"

\* the values uuid.uuid4() can produce
UUIDs == {"uuid4-a", "uuid4-b"}

\* str(uuid.uuid4()), u being the value drawn
set_batch_id(u) == u

\* the fields __init__ assigns; an argument left out takes its default
LWOrchestrator_init(segment_list_arg, batch_id_arg, results_channel_arg, mapping_arg, u) ==
    LET batch == IF batch_id_arg = NotPassed THEN DefaultBatchId ELSE batch_id_arg
        channel == IF results_channel_arg = NotPassed THEN DefaultResultsChannel
                   ELSE results_channel_arg
    IN  [segment_list |-> segment_list_arg,
         module_mapping |-> mapping_arg,
         base_path |-> <<"forecast", Sep, Str(batch), Sep, "segment_results">>,
         results_channel |-> IF channel = None THEN "disk" ELSE channel,
         batch_id |-> IF batch = None THEN set_batch_id(u) ELSE batch]

\* Arguments of the constructor.
SegmentLists == {<< >>, <<"s1">>, <<"s1", "s2">>}
BatchIdArgs == {NotPassed, None, "b7"}
ResultsChannelArgs == {NotPassed, None, "disk", "azure_blob", "ftp"}

\* A registry of two handlers and the run commands each exposes.
Registry == [p \in {"run_queue", "fit"} |->
                IF p = "run_queue" THEN {"start_queue"} ELSE {"run"}]

\* A run configuration: module id -> process dict. Module 3 names a process
\* the registry lacks, module 4 a run command its handler lacks, and module 5
\* has no entry.
RunConfig ==
    [m \in 1..4 |->
        CASE m = 1 -> [process |-> "run_queue", run_command |-> "start_queue"]
          [] m = 2 -> [process |-> "fit", run_command |-> "run"]
          [] m = 3 -> [process |-> "ghost", run_command |-> "run"]
          [] m = 4 -> [process |-> "fit", run_command |-> "run_all"]]

ModuleIds == 1..5
ModuleIdLists == UNION {[1..n -> ModuleIds] : n \in 0..MaxProcs}

\* what a run command can return
Returns == {None, "m1", "m2"}

NoArgs == [batch_id |-> NotPassed, results_channel |-> NotPassed]

\* __init__ raises ValueError without a segment list. It assigns neither
\* module_id_list nor run_config, which run_segment reads: the caller supplies
\* both on the instance before it runs the segment, and the interactor with them.
Construct ==
    /\ pc = "New"
    /\ \E given \in BOOLEAN, seg \in SegmentLists, b \in BatchIdArgs,
          c \in ResultsChannelArgs, u \in UUIDs, mids \in ModuleIdLists :
          IF ~given
          THEN /\ pc' = "NoInstance"
               /\ error' = "ValueError"
               /\ args' = NoArgs
               /\ UNCHANGED <<segment_list, batch_id, base_path, results_channel,
                              module_mapping, module_id_list, run_config>>
          ELSE LET o == LWOrchestrator_init(seg, b, c, Registry, u)
               IN  /\ pc' = "Idle"
                   /\ segment_list' = o.segment_list
                   /\ batch_id' = o.batch_id
                   /\ base_path' = o.base_path
                   /\ results_channel' = o.results_channel
                   /\ module_mapping' = o.module_mapping
                   /\ module_id_list' = mids
                   /\ run_config' = RunConfig
                   /\ error' = NoError
                   /\ args' = [batch_id |-> b, results_channel |-> c]
    /\ UNCHANGED <<idx, results, invoked, retry_calls, calls, runs, fs, last, ops>>

----------------------------------------------------------------------------
(* LWOrchestrator: run_segment.                                            *)

\* a merge in which the base dict wins: {**append_dict, **base_dict}
append_keeping_base(base_dict, append_dict) ==
    [k \in DOMAIN base_dict \cup DOMAIN append_dict |->
        IF k \in DOMAIN base_dict THEN base_dict[k] ELSE append_dict[k]]

\* {**base_dict, **append_dict}
append_to_results(base_dict, append_dict) ==
    [k \in DOMAIN base_dict \cup DOMAIN append_dict |->
        IF k \in DOMAIN append_dict THEN append_dict[k] ELSE base_dict[k]]

\* a run_process that gives no result for an unknown reference instead of raising
run_process_skipping_unknown(mapping, process_dict, ret) ==
    IF process_dict.process \notin DOMAIN mapping
    THEN [exc |-> NoError, result |-> EmptyDict]
    ELSE IF process_dict.run_command \notin mapping[process_dict.process]
    THEN [exc |-> NoError, result |-> EmptyDict]
    ELSE [exc |-> NoError, result |-> [k \in {process_dict.process} |-> ret]]

\* the handler is looked up in the registry and constructed, the run command
\* is looked up on it and called; ret is what the command returns
run_process(mapping, process_dict, ret) ==
    IF process_dict.process \notin DOMAIN mapping
    THEN [exc |-> "KeyError", result |-> EmptyDict]
    ELSE IF process_dict.run_command \notin mapping[process_dict.process]
    THEN [exc |-> "AttributeError", result |-> EmptyDict]
    ELSE [exc |-> NoError, result |-> [k \in {process_dict.process} |-> ret]]

\* the body of the for loop: the value of `results` after it. The dict that
\* append_to_results returns is dropped.
LoopBody(res, result) ==
    IF Truthy(result)
    THEN LET merged == append_to_results(res, result) IN res
    ELSE res

\* a run_segment that checks the channel before it runs the first process
RunSegmentCheckingChannelFirst ==
    /\ pc \in {"Idle", "Completed", "Failed"}
    /\ runs < MaxRuns
    /\ pc' = IF results_channel \in {"disk", "azure_blob"} THEN "Running" ELSE "Failed"
    /\ runs' = runs + 1
    /\ idx' = 1
    /\ results' = EmptyDict
    /\ invoked' = << >>
    /\ retry_calls' = << >>
    /\ calls' = << >>
    /\ error' = IF results_channel \in {"disk", "azure_blob"} THEN NoError
                ELSE "NotImplementedError"
    /\ UNCHANGED <<segment_list, batch_id, base_path, results_channel, module_mapping,
                   module_id_list, run_config, args, fs, last, ops>>

RunSegment ==
    /\ pc \in {"Idle", "Completed", "Failed"}
    /\ runs < MaxRuns
    /\ pc' = "Running"
    /\ runs' = runs + 1
    /\ idx' = 1
    /\ results' = EmptyDict
    /\ invoked' = << >>
    /\ retry_calls' = << >>
    /\ calls' = << >>
    /\ error' = NoError
    /\ UNCHANGED <<segment_list, batch_id, base_path, results_channel, module_mapping,
                   module_id_list, run_config, args, fs, last, ops>>

\* a loop that takes the list from its end
RunProcessFromTheEnd ==
    /\ pc = "Running"
    /\ idx <= Len(module_id_list)
    /\ LET m == module_id_list[Len(module_id_list) + 1 - idx]
       IN  IF m \notin DOMAIN run_config
           THEN /\ pc' = "Failed"
                /\ error' = "KeyError"
                /\ UNCHANGED <<idx, results, invoked>>
           ELSE \E ret \in Returns :
                  LET r == run_process(module_mapping, run_config[m], ret)
                  IN  IF r.exc # NoError
                      THEN /\ pc' = "Failed"
                           /\ error' = r.exc
                           /\ UNCHANGED <<idx, results, invoked>>
                      ELSE /\ invoked' = Append(invoked, [module |-> m,
                                                          process |-> run_config[m].process,
                                                          ret |-> ret])
                           /\ results' = LoopBody(results, r.result)
                           /\ idx' = idx + 1
                           /\ UNCHANGED <<pc, error>>
    /\ UNCHANGED <<segment_list, batch_id, base_path, results_channel, module_mapping,
                   module_id_list, run_config, retry_calls, calls, runs, args, fs, last, ops>>

RunProcess ==
    /\ pc = "Running"
    /\ idx <= Len(module_id_list)
    /\ LET m == module_id_list[idx]
       IN  IF m \notin DOMAIN run_config
           THEN /\ pc' = "Failed"
                /\ error' = "KeyError"
                /\ UNCHANGED <<idx, results, invoked>>
           ELSE \E ret \in Returns :
                  LET r == run_process(module_mapping, run_config[m], ret)
                  IN  IF r.exc # NoError
                      THEN /\ pc' = "Failed"
                           /\ error' = r.exc
                           /\ UNCHANGED <<idx, results, invoked>>
                      ELSE /\ invoked' = Append(invoked, [module |-> m,
                                                          process |-> run_config[m].process,
                                                          ret |-> ret])
                           /\ results' = LoopBody(results, r.result)
                           /\ idx' = idx + 1
                           /\ UNCHANGED <<pc, error>>
    /\ UNCHANGED <<segment_list, batch_id, base_path, results_channel, module_mapping,
                   module_id_list, run_config, retry_calls, calls, runs, args, fs, last, ops>>

\* after the loop: retry_msg is called when results.get("run_queue") is not None
RetryMsg ==
    /\ pc = "Running"
    /\ idx > Len(module_id_list)
    /\ retry_calls' = IF DictGet(results, "run_queue", None) # None
                      THEN Append(retry_calls, results["run_queue"])
                      ELSE retry_calls
    /\ pc' = "Writing"
    /\ UNCHANGED <<segment_list, batch_id, base_path, results_channel, module_mapping,
                   module_id_list, run_config, idx, results, invoked, calls, error,
                   runs, args, fs, last, ops>>

NoKey == <<"<no key>">>

BackendCall(method, data_out, key, file_name) ==
    [method |-> method, data_out |-> data_out, key |-> key, file_name |-> file_name]

\* a route that writes to disk under a channel it does not know
upload_defaulting_to_disk(f, channel, data_out, file_name) ==
    IF channel = "azure_blob"
    THEN LET kn == os_path_split(file_name.s)
         IN  [fs |-> f,
              calls |-> <<BackendCall("write_file_to_blob_storage", data_out,
                                      kn[1], PyStr(kn[2]))>>,
              exc |-> NoError]
    ELSE [fs |-> write_file_to_disk(f, data_out, file_name, FALSE, FALSE, None).fs,
          calls |-> <<BackendCall("write_file_to_disk", data_out, NoKey, file_name)>>,
          exc |-> NoError]

\* [fs, calls, exc]: the filesystem afterwards, the calls made on the
\* interactor and the exception that left the call. self.interactor is the
\* object the caller attached: its write_file_to_disk is DiskInteractions',
\* its write_file_to_blob_storage the remote backend's, whose result the
\* route does not read.
_upload_file_to_output_channel(f, channel, data_out, file_name) ==
    IF channel = "disk"
    THEN [fs |-> write_file_to_disk(f, data_out, file_name, FALSE, FALSE, None).fs,
          calls |-> <<BackendCall("write_file_to_disk", data_out, NoKey, file_name)>>,
          exc |-> NoError]
    ELSE IF channel = "azure_blob"
    THEN LET kn == os_path_split(file_name.s)
         IN  [fs |-> f,
              calls |-> <<BackendCall("write_file_to_blob_storage", data_out,
                                      kn[1], PyStr(kn[2]))>>,
              exc |-> NoError]
    ELSE [fs |-> f, calls |-> << >>, exc |-> "NotImplementedError"]

\* the path write_output builds: base_path.joinpath(f"{'_'.join(segment_list)}_results.json")
OutputPath(base, segs) ==
    PyPath(base \o <<Sep>> \o UnderscoreJoin(segs) \o <<"_results", Dot, "json">>)

\* a write_output that keeps the path it built as the base path
WriteOutputRebindingBasePath ==
    /\ pc = "Writing"
    /\ LET up == _upload_file_to_output_channel(fs, results_channel, PyDict(results),
                                                OutputPath(base_path, segment_list))
       IN  /\ fs' = up.fs
           /\ calls' = calls \o up.calls
           /\ error' = up.exc
           /\ pc' = IF up.exc = NoError THEN "Completed" ELSE "Failed"
    /\ base_path' = OutputPath(base_path, segment_list).s
    /\ UNCHANGED <<segment_list, batch_id, results_channel, module_mapping,
                   module_id_list, run_config, idx, results, invoked, retry_calls,
                   runs, args, last, ops>>

WriteOutput ==
    /\ pc = "Writing"
    /\ LET up == _upload_file_to_output_channel(fs, results_channel, PyDict(results),
                                                OutputPath(base_path, segment_list))
       IN  /\ fs' = up.fs
           /\ calls' = calls \o up.calls
           /\ error' = up.exc
           /\ pc' = IF up.exc = NoError THEN "Completed" ELSE "Failed"
    /\ UNCHANGED <<segment_list, batch_id, base_path, results_channel, module_mapping,
                   module_id_list, run_config, idx, results, invoked, retry_calls,
                   runs, args, last, ops>>

----------------------------------------------------------------------------
(* The orchestrator's specification.                                       *)

NoCall == [op |-> "none", args |-> << >>, ret |-> NoneRet, exc |-> NoError, attempted |-> << >>]

EmptyFs == [dirs |-> {}, files |-> NoFiles]

\* the directories the results of batches "b7" and "batch_1" go to
ForecastFs ==
    [dirs |-> {<<"forecast">>}
              \cup {<<"forecast", Sep, b>> : b \in {"b7", DefaultBatchId}}
              \cup {<<"forecast", Sep, b, Sep, "segment_results">> : b \in {"b7", DefaultBatchId}},
     files |-> NoFiles]

Init ==
    /\ pc = "New"
    /\ segment_list = << >>
    /\ batch_id = None
    /\ base_path = << >>
    /\ results_channel = None
    /\ module_mapping = EmptyDict
    /\ module_id_list = << >>
    /\ run_config = EmptyDict
    /\ idx = 0
    /\ results = EmptyDict
    /\ invoked = << >>
    /\ retry_calls = << >>
    /\ calls = << >>
    /\ error = NoError
    /\ runs = 0
    /\ args = NoArgs
    /\ fs \in {EmptyFs, ForecastFs}
    /\ last = NoCall
    /\ ops = 0

Next ==
    \/ Construct
    \/ RunSegment
    \/ RunProcess
    \/ RetryMsg
    \/ WriteOutput

Spec == Init /\ [][Next]_vars

----------------------------------------------------------------------------
(* DiskInteractions: the calls a client makes, and their specifications.   *)

D == <<"d">>
E == <<"e">>
XJson == <<"d", Sep, "x", Dot, "json">>
EXJson == <<"e", Sep, "x", Dot, "json">>
YCsv == <<"d", Sep, "y", Dot, "csv">>

ZBin == <<"d", Sep, "z", Dot, "bin">>

FileNames == {XJson, EXJson, YCsv, ZBin, D}
DirNames == {D, E, EXJson}

\* an object that is neither a str nor a path
NoneName == [type |-> "NoneType", s |-> << >>]

FileNameArgs == {PyStr(n) : n \in FileNames} \cup {PyPath(XJson), NoneName}

\* payloads: dicts with str keys and with int keys, frames whose column holds
\* ints (the type a reader infers from the text) and strs
DictPayload == PyDict([k \in {"key"} |-> "val"])
OtherDictPayload == PyDict([k \in {"key"} |-> "other_val"])
IntKeyPayload == PyObj("dict", "int", [k \in {"1"} |-> "val"])
FramePayload == PyObj("DataFrame", "inferred", [c \in {"col_int"} |-> "1,2,3"])
StrFramePayload == PyObj("DataFrame", "col_int:str", [c \in {"col_int"} |-> "1,2,3"])
Payloads == {DictPayload, IntKeyPayload, FramePayload, StrFramePayload}

TypeHints == {None, "col_int:str"}

\* the filesystems a behaviour starts from
DirFs == [dirs |-> {D}, files |-> NoFiles]
StoredFs == PutFile(PutFile(DirFs, XJson, JsonDump(OtherDictPayload)), YCsv,
                   CsvDump(FramePayload))
FileFs == PutFile(EmptyFs, D, JoblibDump(DictPayload))
StoreFs == {EmptyFs, DirFs, StoredFs, FileFs}
TwoDirFs == [dirs |-> {D, E}, files |-> NoFiles]
BatchFs == StoreFs \cup {TwoDirFs}

\* datetime.utcnow() is read only when a timestamp is asked for
ClockAt(include_datetime) == IF include_datetime THEN Timestamps ELSE {None}

Call(op, a, r) ==
    [op |-> op, args |-> a, ret |-> r.ret, exc |-> r.exc, attempted |-> << >>]

BatchCall(op, a, r) ==
    [op |-> op, args |-> a, ret |-> r.ret, exc |-> r.exc, attempted |-> r.attempted]

Write ==
    /\ ops < MaxOps
    /\ \E file_name \in FileNameArgs, data_out \in Payloads, include_datetime \in BOOLEAN,
          ret_result \in BOOLEAN :
       \E now \in ClockAt(include_datetime) :
          LET r == write_file_to_disk(fs, data_out, file_name, include_datetime,
                                      ret_result, now)
          IN  /\ fs' = r.fs
              /\ last' = Call("write_file_to_disk",
                              [file_name |-> file_name, data_out |-> data_out,
                               include_datetime |-> include_datetime], 
                              [ret |-> Bool(r.ret), exc |-> r.exc])
    /\ ops' = ops + 1
    /\ UNCHANGED orch_vars

Read ==
    /\ ops < MaxOps
    /\ \E file_name \in FileNameArgs, dtype_dict \in TypeHints :
          /\ last' = Call("read_file_from_disk",
                          [file_name |-> file_name, dtype_dict |-> dtype_dict],
                          [ret |-> read_file_from_disk(fs, file_name, dtype_dict),
                           exc |-> NoError])
    /\ ops' = ops + 1
    /\ UNCHANGED <<orch_vars, fs>>

Delete ==
    /\ ops < MaxOps
    /\ \E file_name \in FileNameArgs, ret_result \in BOOLEAN :
          LET r == delete_file_from_disk(fs, file_name, ret_result)
          IN  /\ fs' = r.fs
              /\ last' = Call("delete_file_from_disk", [file_name |-> file_name],
                              [ret |-> Bool(r.ret), exc |-> NoError])
    /\ ops' = ops + 1
    /\ UNCHANGED orch_vars

CreateDirectory ==
    /\ ops < MaxOps
    /\ \E directory_path \in DirNames :
          LET r == create_directory(fs, directory_path)
          IN  /\ fs' = r.fs
              /\ last' = Call("create_directory", [directory_path |-> directory_path], r)
    /\ ops' = ops + 1
    /\ UNCHANGED orch_vars

CreateMultilevelDirectories ==
    /\ ops < MaxOps
    /\ \E directory_path \in DirNames :
          LET r == create_multilevel_directories(fs, directory_path)
          IN  /\ fs' = r.fs
              /\ last' = Call("create_multilevel_directories",
                              [directory_path |-> directory_path], r)
    /\ ops' = ops + 1
    /\ UNCHANGED orch_vars

ListFilesInDirectory ==
    /\ ops < MaxOps
    /\ \E directory_path \in DirNames, files_only \in BOOLEAN :
          LET r == list_files_in_directory(fs, directory_path, files_only)
          IN  /\ fs' = r.fs
              /\ last' = Call("list_files_in_directory",
                              [directory_path |-> directory_path,
                               files_only |-> files_only], r)
    /\ ops' = ops + 1
    /\ UNCHANGED orch_vars

DeleteEmptyDirectory ==
    /\ ops < MaxOps
    /\ \E directory_path \in DirNames :
          LET r == delete_empty_directory(fs, directory_path)
          IN  /\ fs' = r.fs
              /\ last' = Call("delete_empty_directory",
                              [directory_path |-> directory_path], r)
    /\ ops' = ops + 1
    /\ UNCHANGED orch_vars

DeleteDirectory ==
    /\ ops < MaxOps
    /\ \E directory_path \in DirNames :
          LET r == delete_directory(fs, directory_path)
          IN  /\ fs' = r.fs
              /\ last' = Call("delete_directory", [directory_path |-> directory_path], r)
    /\ ops' = ops + 1
    /\ UNCHANGED orch_vars

\* the lists the batch methods are called with
ListsOver(S) == UNION {[1..n -> S] : n \in 0..MaxBatch}

WriteEntries == {<<PyStr(XJson), DictPayload>>, <<PyStr(EXJson), OtherDictPayload>>,
                 <<PyStr(YCsv), DictPayload>>}
ReadEntries == {PyStr(XJson), PyStr(EXJson), PyTuple(YCsv, "col_int:str")}
DeleteEntries == {PyStr(XJson), PyStr(EXJson), PyStr(D)}

WriteLists == ListsOver(WriteEntries)
ReadLists == ListsOver(ReadEntries)
DeleteLists == ListsOver(DeleteEntries)

WriteBatch ==
    /\ ops < MaxBatchOps
    /\ \E l \in WriteLists, include_datetime \in BOOLEAN, ret_result \in BOOLEAN :
       \E now \in ClockAt(include_datetime) :
          LET r == write_files_to_disk(fs, l, include_datetime, ret_result, now)
          IN  /\ fs' = r.fs
              /\ last' = BatchCall("write_files_to_disk",
                                   [list |-> l, include_datetime |-> include_datetime], r)
    /\ ops' = ops + 1
    /\ UNCHANGED orch_vars

ReadBatch ==
    /\ ops < MaxBatchOps
    /\ \E l \in ReadLists :
          LET r == read_files_from_disk(fs, l)
          IN  /\ fs' = r.fs
              /\ last' = BatchCall("read_files_from_disk", [list |-> l], r)
    /\ ops' = ops + 1
    /\ UNCHANGED orch_vars

DeleteBatch ==
    /\ ops < MaxBatchOps
    /\ \E l \in DeleteLists, ret_result \in BOOLEAN :
          LET r == delete_files_from_disk(fs, l, ret_result)
          IN  /\ fs' = r.fs
              /\ last' = BatchCall("delete_files_from_disk", [list |-> l], r)
    /\ ops' = ops + 1
    /\ UNCHANGED orch_vars

InitStore ==
    /\ pc = "New"
    /\ segment_list = << >>
    /\ batch_id = None
    /\ base_path = << >>
    /\ results_channel = None
    /\ module_mapping = EmptyDict
    /\ module_id_list = << >>
    /\ run_config = EmptyDict
    /\ idx = 0
    /\ results = EmptyDict
    /\ invoked = << >>
    /\ retry_calls = << >>
    /\ calls = << >>
    /\ error = NoError
    /\ runs = 0
    /\ args = NoArgs
    /\ fs \in StoreFs
    /\ last = NoCall
    /\ ops = 0

NextStore ==
    \/ Write
    \/ Read
    \/ Delete
    \/ CreateDirectory
    \/ CreateMultilevelDirectories
    \/ ListFilesInDirectory
    \/ DeleteEmptyDirectory
    \/ DeleteDirectory

SpecStore == InitStore /\ [][NextStore]_vars

NextBatch ==
    \/ WriteBatch
    \/ ReadBatch
    \/ DeleteBatch

InitBatch ==
    /\ pc = "New"
    /\ segment_list = << >>
    /\ batch_id = None
    /\ base_path = << >>
    /\ results_channel = None
    /\ module_mapping = EmptyDict
    /\ module_id_list = << >>
    /\ run_config = EmptyDict
    /\ idx = 0
    /\ results = EmptyDict
    /\ invoked = << >>
    /\ retry_calls = << >>
    /\ calls = << >>
    /\ error = NoError
    /\ runs = 0
    /\ args = NoArgs
    /\ fs \in BatchFs
    /\ last = NoCall
    /\ ops = 0

SpecBatch == InitBatch /\ [][NextBatch]_vars

----------------------------------------------------------------------------
(* append_to_results on its own: a caller that holds a dict in `results`   *)
(* calls it with a second dict.                                            *)

\* the dicts of results: process name -> what its run command returned
ResultDicts == UNION {[ks -> Returns] : ks \in SUBSET DOMAIN Registry}

\* the call: the value returned and the two argument objects after it. The
\* dict display builds a new dict and assigns to neither argument.
append_to_results_call(base_dict, append_dict) ==
    [ret |-> append_to_results(base_dict, append_dict),
     base_dict |-> base_dict,
     append_dict |-> append_dict]

AppendToResults ==
    /\ ops < MaxOps
    /\ \E append_dict \in ResultDicts :
          LET c == append_to_results_call(results, append_dict)
          IN  /\ results' = c.base_dict
              /\ last' = Call("append_to_results",
                              [base_dict |-> PyDict(results),
                               append_dict |-> PyDict(append_dict),
                               append_after |-> PyDict(c.append_dict)],
                              [ret |-> PyDict(c.ret), exc |-> NoError])
    /\ ops' = ops + 1
    /\ UNCHANGED <<pc, segment_list, batch_id, base_path, results_channel, module_mapping,
                   module_id_list, run_config, idx, invoked, retry_calls, calls, error,
                   runs, args, fs>>

InitMerge ==
    /\ pc = "New"
    /\ segment_list = << >>
    /\ batch_id = None
    /\ base_path = << >>
    /\ results_channel = None
    /\ module_mapping = EmptyDict
    /\ module_id_list = << >>
    /\ run_config = EmptyDict
    /\ idx = 0
    /\ results \in ResultDicts
    /\ invoked = << >>
    /\ retry_calls = << >>
    /\ calls = << >>
    /\ error = NoError
    /\ runs = 0
    /\ args = NoArgs
    /\ fs = EmptyFs
    /\ last = NoCall
    /\ ops = 0

NextMerge == AppendToResults

SpecMerge == InitMerge /\ [][NextMerge]_vars

----------------------------------------------------------------------------
(* Claims about the orchestrator.                                          *)

\* the ResultSet the invocations made so far amount to: their results merged
\* in order, a later one replacing an earlier one under the same key
RECURSIVE MergedResults(_)
MergedResults(inv) ==
    IF inv = << >> THEN EmptyDict
    ELSE LET n == Len(inv)
         IN  append_to_results(MergedResults(SubSeq(inv, 1, n - 1)),
                               [k \in {inv[n].process} |-> inv[n].ret])

\* the destination a backend call names
DestinationOf(call) ==
    IF call.key = NoKey THEN call.file_name.s
    ELSE os_path_join(call.key, call.file_name.s)

\* forecast/{batchId}/segment_results/{segment ids joined by "_"}_results.json
NamedDestination(batch, segs) ==
    <<"forecast", Sep, batch, Sep, "segment_results", Sep>>
        \o UnderscoreJoin(segs) \o <<"_results", Dot, "json">>

Constructed == pc \notin {"New", "NoInstance"}

\* C1: the result set handed to the output channel maps every process that
\* was invoked to the value it returned, merged in list order, the later
\* invocation winning under a shared key.
C1_ResultSetHoldsEveryResult ==
    \A i \in 1..Len(calls) : calls[i].data_out = PyDict(MergedResults(invoked))

\* C2: the destination run_segment writes to is
\* forecast/{batchId}/segment_results/{segments}_results.json with {batchId}
\* the batch id the orchestrator holds, supplied or defaulted.
C2_DestinationNamesBatchId ==
    \A i \in 1..Len(calls) :
        DestinationOf(calls[i]) = NamedDestination(batch_id, segment_list)

\* C3: with channel "disk", run_segment ends Completed only when the result
\* set was written: the artifact exists at the destination afterwards (the
\* directory of the destination being there before the run).
C3_CompletedMeansWritten ==
    (pc = "Completed" /\ results_channel = "disk"
        /\ IsDir(fs, os_path_dirname(OutputPath(base_path, segment_list).s))) =>
        /\ Len(calls) = 1
        /\ IsFile(fs, DestinationOf(calls[1]))

\* C4: with a channel other than "disk" and "azure_blob" the route raises and
\* writes on no backend; with "disk" it calls the disk writer only, with the
\* path it was given; with "azure_blob" it calls the remote backend only, with
\* the path split into key and file name.
C4_RouteStep ==
    (pc = "Writing" /\ pc' # "Writing") =>
        LET dest == base_path \o <<Sep>> \o UnderscoreJoin(segment_list)
                        \o <<"_results", Dot, "json">>
        IN  CASE results_channel = "disk" ->
                   /\ pc' = "Completed"
                   /\ calls' = Append(calls, BackendCall("write_file_to_disk",
                                          PyDict(results), NoKey, PyPath(dest)))
              [] results_channel = "azure_blob" ->
                   /\ pc' = "Completed"
                   /\ fs' = fs
                   /\ Len(calls') = Len(calls) + 1
                   /\ LET c == calls'[Len(calls')]
                      IN  /\ c.method = "write_file_to_blob_storage"
                          /\ c.data_out = PyDict(results)
                          /\ c.key \o <<Sep>> \o c.file_name.s = dest
                          /\ Sep \notin {c.file_name.s[j] : j \in 1..Len(c.file_name.s)}
              [] OTHER ->
                   /\ pc' = "Failed"
                   /\ error' = "NotImplementedError"
                   /\ calls' = calls
                   /\ fs' = fs

C4_ChannelRouting == [][C4_RouteStep]_vars

C4_Witness ==
    /\ pc = "Failed"
    /\ error = "NotImplementedError"
    /\ results_channel = "ftp"
    /\ Len(invoked) > 0

\* the module ids whose process dict names a process the registry lacks or a
\* run command the handler lacks
UnknownReference(m) ==
    /\ m \in DOMAIN run_config
    /\ \/ run_config[m].process \notin DOMAIN module_mapping
       \/ run_config[m].run_command \notin module_mapping[run_config[m].process]

\* C5: a process that names an unknown process identifier or run command ends
\* run_segment with a raised error there: no process from it on is invoked,
\* the retry extension point is not called and nothing is written.
C5_StopState ==
    \A i \in 1..Len(module_id_list) :
        (Constructed /\ runs > 0 /\ UnknownReference(module_id_list[i])) =>
            /\ Len(invoked) < i
            /\ retry_calls = << >>
            /\ calls = << >>
            /\ pc \in {"Running", "Failed"}
            /\ idx <= i
            /\ pc = "Failed" => error \in {"KeyError", "AttributeError"}

C5_StopStep ==
    (pc' = "Failed" /\ pc = "Running") => fs' = fs

C5_UnknownReferenceStops == []C5_StopState /\ [][C5_StopStep]_vars

C5_Witness ==
    /\ pc = "Failed"
    /\ error = "AttributeError"
    /\ module_id_list = <<4, 1>>
    /\ idx = 1
    /\ invoked = << >>

\* C6: an orchestrator constructed without a batch identifier holds a
\* UUID-formatted batch identifier.
C6_DefaultBatchIdIsUuid ==
    (Constructed /\ args.batch_id \in {NotPassed, None}) => batch_id \in UUIDs

\* C7: an orchestrator constructed with the channel selector unset has channel
\* "disk" and its run_segment does not fail on an unrecognized channel.
C7_UnsetChannelIsDisk ==
    (Constructed /\ args.results_channel \in {NotPassed, None}) =>
        /\ results_channel = "disk"
        /\ error # "NotImplementedError"

\* C8: when the run_queue process returned a value, the retry extension point
\* has been called once with that value by the time of the channel write.
C8_RetryCalledWithQueueEntry ==
    (pc \in {"Writing", "Completed"}
        /\ DictGet(MergedResults(invoked), "run_queue", None) # None) =>
        retry_calls = <<MergedResults(invoked)["run_queue"]>>

----------------------------------------------------------------------------
(* Claims about DiskInteractions.                                          *)

FileOps == {"write_file_to_disk", "read_file_from_disk", "delete_file_from_disk"}

\* C9: no operation of the store raises to its caller, whatever the state of
\* the filesystem: a missing directory, a file where a directory is expected
\* or a directory where a file is expected (the names handed in being paths).
C9_NoOperationRaises ==
    (last.op # "none" /\ (last.op \in FileOps => PathLike(last.args.file_name))) =>
        last.exc = NoError

\* the name an entry of a batch list gives
EntryName(op, entry) ==
    IF op = "write_files_to_disk" THEN entry[1]
    ELSE IF entry.type = "tuple" THEN PyStr(entry.s)
    ELSE entry

BatchOps == {"write_files_to_disk", "read_files_from_disk", "delete_files_from_disk"}

\* C10: a batch call attempts every entry of its list in input order, returns
\* normally, and its result has a key for the base name of every entry.
C10_BatchIsolatesItems ==
    last.op \in BatchOps =>
        /\ last.exc = NoError
        /\ last.attempted = [i \in 1..Len(last.args.list) |->
                                EntryName(last.op, last.args.list[i])]
        /\ DOMAIN last.ret = {os_path_basename(EntryName(last.op, last.args.list[i]).s) :
                                 i \in 1..Len(last.args.list)}

\* the type hints an entry of a read list gives
EntryHints(entry) == IF entry.type = "tuple" THEN entry.hints ELSE None

\* C11: the batch read takes entries that are a source name or a pair of a
\* source name and type hints, and for both shapes returns a mapping from the
\* base name of the source name to the payload read from that source (None
\* when the read failed).
C11_ReadBatchKeyedByBaseName ==
    last.op = "read_files_from_disk" =>
        LET l == last.args.list
            base(i) == os_path_basename(EntryName(last.op, l[i]).s)
        IN  /\ last.exc = NoError
            /\ DOMAIN last.ret = {base(i) : i \in 1..Len(l)}
            /\ \A i \in 1..Len(l) :
                  (\A j \in (i + 1)..Len(l) : base(j) # base(i)) =>
                      last.ret[base(i)] = read_file_from_disk(fs, EntryName(last.op, l[i]),
                                                              EntryHints(l[i]))

\* the format a destination name selects
FormatOf(name) ==
    IF EndsWith(name, DotJson) THEN "json"
    ELSE IF EndsWith(name, DotCsv) THEN "csv"
    ELSE "pickle"

\* the payloads a format can serialize
SerializableAs(format, d) ==
    CASE format = "json" -> d.type = "dict"
      [] format = "csv" -> d.type = "DataFrame"
      [] OTHER -> TRUE

\* the file at a name holds the payload in the format the name selects
Holds(f, name, d) ==
    /\ IsFile(f, name)
    /\ f.files[name].enc = FormatOf(name)
    /\ f.files[name].items = d.items

\* a write of the payload to the name can be carried out: the name is a
\* string, its directory exists, it is no directory itself, and the format it
\* selects serializes the payload
Writable(f, file_name, d) ==
    /\ file_name.type = "str"
    /\ IsDir(f, os_path_dirname(file_name.s))
    /\ ~IsDir(f, file_name.s)
    /\ SerializableAs(FormatOf(file_name.s), d)

\* the names a write can give the file: the name handed in, or the name with a
\* timestamp before its extension
UploadNames(file_name, include_datetime) ==
    IF include_datetime
    THEN {_set_upload_file_name(file_name, now).name : now \in Timestamps}
    ELSE {file_name}

\* C12: the batch write calls write once per entry in input order and keys
\* its result by base name only: entries that share a base name under
\* different directories are each written to their own full path, and the
\* result has one key for the base name, whose value is the status of the
\* later entry.
C12_WriteBatchKeyedByBaseName ==
    last.op = "write_files_to_disk" =>
        LET l == last.args.list
            base(i) == os_path_basename(l[i][1].s)
            written(i) == \E u \in UploadNames(l[i][1], last.args.include_datetime) :
                              Holds(fs, u.s, l[i][2])
        IN  /\ last.exc = NoError
            /\ last.attempted = [i \in 1..Len(l) |-> l[i][1]]
            /\ DOMAIN last.ret = {base(i) : i \in 1..Len(l)}
            /\ \A i \in 1..Len(l) :
                  /\ (\A j \in (i + 1)..Len(l) : base(j) # base(i)) =>
                        last.ret[base(i)] = Bool(written(i))
                  /\ (\A j \in (i + 1)..Len(l) : l[j][1] # l[i][1]) =>
                        (written(i) <=> Writable(fs, l[i][1], l[i][2]))

C12_Witness ==
    /\ last.op = "write_files_to_disk"
    /\ last.args.list = <<<<PyStr(XJson), DictPayload>>, <<PyStr(EXJson), OtherDictPayload>>>>
    /\ ~last.args.include_datetime
    /\ last.ret = [k \in {<<"x", Dot, "json">>} |-> Bool(TRUE)]
    /\ Holds(fs, XJson, DictPayload)
    /\ Holds(fs, EXJson, OtherDictPayload)

\* a step that makes the call `op` on the store
CallStep(op) == ops' = ops + 1 /\ last'.op = op

\* C13: delete_file_from_disk is idempotent: on a path that does not exist it
\* returns True and leaves the filesystem as it is, on an existing file it
\* removes that file and nothing else and returns True; a second call in a
\* row returns True again and changes nothing.
C13_DeleteStep ==
    (/\ CallStep("delete_file_from_disk")
     /\ PathLike(last'.args.file_name)
     /\ ~IsDir(fs, last'.args.file_name.s)) =>
        LET name == last'.args.file_name.s
        IN  /\ last'.exc = NoError
            /\ last'.ret = Bool(TRUE)
            /\ ~os_path_exists(fs', name)
            /\ fs'.dirs = fs.dirs
            /\ DOMAIN fs'.files = DOMAIN fs.files \ {name}
            /\ \A q \in DOMAIN fs'.files : fs'.files[q] = fs.files[q]
            /\ ~os_path_exists(fs, name) => fs' = fs
            /\ (last.op = "delete_file_from_disk" /\ last.args = last'.args) => fs' = fs

C13_IdempotentDelete == [][C13_DeleteStep]_vars

C13_Witness ==
    /\ ops = 1
    /\ last.op = "delete_file_from_disk"
    /\ last.args.file_name = PyStr(XJson)
    /\ last.ret = Bool(TRUE)
    /\ ~IsFile(fs, XJson)
    /\ IsFile(fs, YCsv)

\* C14: create_directory(p) returns True exactly when p did not exist before
\* the call and the directory was created; when p exists it returns False,
\* raises nothing and changes nothing, so that the call made twice on a fresh
\* path returns True and then False.
C14_CreateStep ==
    CallStep("create_directory") =>
        LET p == last'.args.directory_path
        IN  /\ last'.exc = NoError
            /\ last'.ret = Bool(~os_path_exists(fs, p) /\ IsDir(fs', p))
            /\ fs'.files = fs.files
            /\ fs'.dirs \in {fs.dirs, fs.dirs \cup {p}}
            /\ os_path_exists(fs, p) => (last'.ret = Bool(FALSE) /\ fs' = fs)
            /\ (/\ last.op = "create_directory"
                /\ last.args = last'.args
                /\ last.ret = Bool(TRUE)) => last'.ret = Bool(FALSE)

C14_CreateDirectoryOnce == [][C14_CreateStep]_vars

C14_Witness ==
    /\ ops = 2
    /\ last.op = "create_directory"
    /\ last.args.directory_path = E
    /\ last.ret = Bool(FALSE)
    /\ fs = [dirs |-> {E}, files |-> NoFiles]

\* C15: create_multilevel_directories(path) returns the bool True after it
\* created every missing level when the full path did not exist, and returns
\* the bool False, raising nothing and changing nothing, when the full path
\* exists already.
C15_CreateMultilevelStep ==
    CallStep("create_multilevel_directories") =>
        LET p == last'.args.directory_path
        IN  /\ last'.exc = NoError
            /\ ~os_path_exists(fs, p) =>
                  /\ last'.ret = Bool(TRUE)
                  /\ fs'.dirs = fs.dirs \cup Ancestors(p)
                  /\ fs'.files = fs.files
            /\ os_path_exists(fs, p) =>
                  /\ last'.ret = Bool(FALSE)
                  /\ fs' = fs

C15_CreateMultilevelReturnsBool == [][C15_CreateMultilevelStep]_vars

\* the directory holds no entry
IsEmptyDir(f, p) == IsDir(f, p) /\ \A q \in Entries(f) : q = p \/ q \notin Below(f, p)

\* C16: delete_empty_directory(path) returns True if and only if the path was
\* an empty directory before the call, and the directory is gone afterwards;
\* on a missing path, a directory that holds something and a file it returns
\* False, raises nothing and changes nothing.
C16_DeleteEmptyStep ==
    CallStep("delete_empty_directory") =>
        LET p == last'.args.directory_path
        IN  /\ last'.exc = NoError
            /\ last'.ret = Bool(IsEmptyDir(fs, p))
            /\ IsEmptyDir(fs, p) =>
                  /\ ~os_path_exists(fs', p)
                  /\ fs'.dirs = fs.dirs \ {p}
                  /\ fs'.files = fs.files
            /\ ~IsEmptyDir(fs, p) => fs' = fs

C16_DeleteEmptyDirectoryOnly == [][C16_DeleteEmptyStep]_vars

C16_Witness ==
    /\ ops = 1
    /\ last.op = "delete_empty_directory"
    /\ last.args.directory_path = D
    /\ last.ret = Bool(TRUE)
    /\ fs = EmptyFs

\* the filesystem without the path and without anything beneath it, the rest
\* as it was
Without(f, g, p) ==
    /\ \A q \in Entries(g) : q \notin Below(f, p) /\ q # p
    /\ g.dirs = f.dirs \ Below(f, p)
    /\ DOMAIN g.files = DOMAIN f.files \ Below(f, p)
    /\ \A q \in DOMAIN g.files : g.files[q] = f.files[q]

\* C17: delete_directory(path) returns True and leaves neither the path nor
\* anything beneath it whenever the path exists, and returns False, the
\* filesystem unchanged, when the path does not exist.
C17_DeleteStep ==
    CallStep("delete_directory") =>
        LET p == last'.args.directory_path
        IN  /\ os_path_exists(fs, p) =>
                  /\ last'.ret = Bool(TRUE)
                  /\ Without(fs, fs', p)
            /\ ~os_path_exists(fs, p) =>
                  /\ last'.ret = Bool(FALSE)
                  /\ fs' = fs

C17_DeleteDirectoryRemovesPath == [][C17_DeleteStep]_vars

\* C17, amended: delete_directory(path) returns True and leaves neither the
\* path nor anything beneath it whenever the path is a directory, and returns
\* False, the filesystem unchanged, when the path does not exist or is a file;
\* it raises in neither case.
C17_DeleteDirectoryStep ==
    CallStep("delete_directory") =>
        LET p == last'.args.directory_path
        IN  /\ last'.exc = NoError
            /\ IsDir(fs, p) =>
                  /\ last'.ret = Bool(TRUE)
                  /\ Without(fs, fs', p)
            /\ ~IsDir(fs, p) =>
                  /\ last'.ret = Bool(FALSE)
                  /\ fs' = fs

C17_DeleteDirectoryRemovesDirectory == [][C17_DeleteDirectoryStep]_vars

C17_Witness ==
    /\ ops = 1
    /\ last.op = "delete_directory"
    /\ last.args.directory_path = D
    /\ last.ret = Bool(TRUE)
    /\ fs = EmptyFs

\* a read of the name the call before wrote to with success
ReadAfterWrite ==
    /\ CallStep("read_file_from_disk")
    /\ last.op = "write_file_to_disk"
    /\ last.ret = Bool(TRUE)
    /\ ~last.args.include_datetime
    /\ last.args.file_name = last'.args.file_name
    /\ FormatOf(last.args.file_name.s) \in {"json", "csv"}

\* C18: a payload written with success under a .json or .csv name is what a
\* read of the same name returns, no write or delete of the name coming
\* between (the last write being the one that counts).
C18_RoundTripStep ==
    ReadAfterWrite => last'.ret = last.args.data_out

ReadsBackEqual(d, format, dtype_dict) ==
    IF format = "json" THEN d.type = "dict" /\ d.keys = "str"
    ELSE d.type = "DataFrame" /\ d.keys = (IF dtype_dict = None THEN "inferred" ELSE dtype_dict)

\* C18, amended: a dict with str keys written with success under a .json
\* name, or a frame written with success under a .csv name whose column types
\* are those the read gives, is what a read of the same name returns, no write
\* or delete of the name coming between (the last write being the one that
\* counts).
C18_FaithfulRoundTripStep ==
    (/\ ReadAfterWrite
     /\ ReadsBackEqual(last.args.data_out, FormatOf(last.args.file_name.s),
                       last'.args.dtype_dict)) =>
        last'.ret = last.args.data_out

C19_FormatStep ==
    /\ (CallStep("write_file_to_disk") /\ last'.args.file_name.type = "str") =>
          LET name == last'.args.file_name
              d == last'.args.data_out
              ups == UploadNames(name, last'.args.include_datetime)
          IN  /\ \A u \in ups : FormatOf(u.s) = FormatOf(name.s)
              /\ last'.ret = Bool(TRUE) =>
                    \E u \in ups : /\ Holds(fs', u.s, d)
                                   /\ fs'.files[u.s].type = d.type
              /\ (\A u \in ups : IsDir(fs, os_path_dirname(u.s)) /\ ~IsDir(fs, u.s)) =>
                    last'.ret = Bool(SerializableAs(FormatOf(name.s), d))
    /\ (CallStep("read_file_from_disk") /\ last'.args.file_name.type = "str") =>
          LET name == last'.args.file_name.s
          IN  last'.ret # NoneObj <=> (IsFile(fs, name) /\ fs.files[name].enc = FormatOf(name))

C19_FormatBySuffix == [][C19_FormatStep]_vars

C19_Witness ==
    /\ last.op = "write_file_to_disk"
    /\ last.args.file_name = PyStr(ZBin)
    /\ last.args.data_out = FramePayload
    /\ last.ret = Bool(TRUE)
    /\ IsFile(fs, ZBin)
    /\ fs.files[ZBin].enc = "pickle"

\* C20: write_file_to_disk returns True if and only if the payload was
\* serialized to the destination, and returns False, no error leaving the
\* call, on every failure: a missing directory, a payload the format of the
\* name does not serialize, a name that is no string. _read_file on a source
\* that fails returns (None, False) and read_file_from_disk returns None.
C20_WriteReadStep ==
    /\ CallStep("write_file_to_disk") =>
          LET name == last'.args.file_name
              d == last'.args.data_out
              ups == UploadNames(name, last'.args.include_datetime)
          IN  /\ last'.exc = NoError
              /\ last'.ret = Bool(\E u \in ups : Writable(fs, u, d))
              /\ last'.ret = Bool(TRUE) => \E u \in ups : Holds(fs', u.s, d)
    /\ CallStep("read_file_from_disk") =>
          LET name == last'.args.file_name
              fails == ~(/\ name.type = "str"
                         /\ IsFile(fs, name.s)
                         /\ fs.files[name.s].enc = FormatOf(name.s))
          IN  /\ last'.exc = NoError
              /\ fails => /\ _read_file(fs, name, last'.args.dtype_dict)
                                = [data |-> NoneObj, ok |-> FALSE]
                          /\ last'.ret = NoneObj

C20_FailuresBecomeFalse == [][C20_WriteReadStep]_vars

----------------------------------------------------------------------------
(* Claims about the order of run_segment and about what it leaves alone.   *)

\* the module ids invoked so far, in the order of their invocation
InvokedModules == [i \in 1..Len(invoked) |-> invoked[i].module]

\* C21: run_segment is sequential: the processes of module_id_list are
\* invoked once each, in list order, one invocation returning before the next
\* starts, and the one channel write comes after the last invocation returned.
C21_SequentialState ==
    (Constructed /\ runs > 0) =>
        /\ Len(invoked) <= Len(module_id_list)
        /\ InvokedModules = SubSeq(module_id_list, 1, Len(invoked))
        /\ pc = "Running" => idx = Len(invoked) + 1
        /\ pc \in {"Writing", "Completed"} => InvokedModules = module_id_list
        /\ Len(calls) <= 1
        /\ calls # << >> => (pc = "Completed" /\ InvokedModules = module_id_list)

C21_SequentialStep ==
    /\ (pc = "Running" /\ pc' = "Running") =>
          /\ Len(invoked') = Len(invoked) + 1
          /\ SubSeq(invoked', 1, Len(invoked)) = invoked
          /\ calls' = calls
    /\ Len(calls') > Len(calls) =>
          /\ pc = "Writing"
          /\ invoked' = invoked
          /\ InvokedModules = module_id_list

C21_StrictlySequential == []C21_SequentialState /\ [][C21_SequentialStep]_vars

C21_Witness ==
    /\ pc = "Completed"
    /\ module_id_list = <<2, 1>>
    /\ InvokedModules = <<2, 1>>
    /\ Len(calls) = 1

\* the fields of the instance that make up the BatchContext, with the segment
\* list and the run configuration
ContextFields == <<batch_id, base_path, results_channel, segment_list, run_config>>

\* C22: the batch id, the base output path and the output channel are fixed
\* at construction: run_segment, run_process, the retry extension point and
\* write_output leave them as they are, and leave the segment list and the
\* run configuration as they are.
C22_ContextState ==
    Constructed =>
        /\ args.batch_id = NotPassed => batch_id = DefaultBatchId
        /\ args.batch_id = None => batch_id \in UUIDs
        /\ args.batch_id \notin {NotPassed, None} => batch_id = args.batch_id
        /\ base_path = <<"forecast", Sep,
                         IF args.batch_id = NotPassed THEN DefaultBatchId
                         ELSE Str(args.batch_id),
                         Sep, "segment_results">>
        /\ results_channel = IF args.results_channel = NotPassed THEN DefaultResultsChannel
                             ELSE IF args.results_channel = None THEN "disk"
                             ELSE args.results_channel
        /\ run_config = RunConfig

C22_ContextStep ==
    Constructed => UNCHANGED ContextFields

C22_ContextFixedAtConstruction == []C22_ContextState /\ [][C22_ContextStep]_vars

C22_Witness ==
    /\ pc = "Completed"
    /\ runs = 2
    /\ args.batch_id = None
    /\ batch_id \in UUIDs
    /\ results_channel = "azure_blob"
    /\ segment_list = <<"s1", "s2">>
    /\ Len(invoked) = 2

\* C23: append_to_results(base, append) returns a mapping whose keys are the
\* keys of both, with the value of append under every key append has and the
\* value of base otherwise, and it changes neither argument: the caller sees
\* the merge in the value returned only.
C23_MergeStep ==
    CallStep("append_to_results") =>
        LET base == last'.args.base_dict.items
            append == last'.args.append_dict.items
            merged == last'.ret.items
        IN  /\ last'.exc = NoError
            /\ DOMAIN merged = DOMAIN base \cup DOMAIN append
            /\ \A k \in DOMAIN append : merged[k] = append[k]
            /\ \A k \in DOMAIN base \ DOMAIN append : merged[k] = base[k]
            /\ results = base
            /\ results' = base
            /\ last'.args.append_after.items = append

C23_AppendReturnsMerge == [][C23_MergeStep]_vars

C23_Witness ==
    /\ last.op = "append_to_results"
    /\ last.args.base_dict = PyDict([k \in {"run_queue", "fit"} |-> "m1"])
    /\ last.args.append_dict = PyDict([k \in {"fit"} |-> "m2"])
    /\ last.ret = PyDict([k \in {"run_queue", "fit"} |-> IF k = "fit" THEN "m2" ELSE "m1"])
    /\ results = [k \in {"run_queue", "fit"} |-> "m1"]

\* C24: the output channel is checked at the write step only: with a channel
\* that is not recognized, run_segment invokes every process of the list, and
\* passes the retry point, before NotImplementedError is raised; the error is
\* never raised before the first invocation.
C24_LateState ==
    error = "NotImplementedError" =>
        /\ pc = "Failed"
        /\ results_channel \notin {"disk", "azure_blob"}
        /\ InvokedModules = module_id_list
        /\ idx = Len(module_id_list) + 1
        /\ retry_calls = IF DictGet(results, "run_queue", None) # None
                         THEN <<results["run_queue"]>>
                         ELSE << >>
        /\ calls = << >>

C24_LateStep ==
    /\ (error' = "NotImplementedError" /\ error # "NotImplementedError") => pc = "Writing"
    /\ (pc = "Running" /\ results_channel \notin {"disk", "azure_blob"}) =>
          error' # "NotImplementedError"

C24_ChannelCheckedAtWrite == []C24_LateState /\ [][C24_LateStep]_vars

C24_Witness ==
    /\ error = "NotImplementedError"
    /\ args.results_channel = NotPassed
    /\ results_channel = DefaultResultsChannel
    /\ module_id_list = <<2, 1>>
    /\ Len(invoked) = 2

----------------------------------------------------------------------------
(* A claim about failed writes.                                            *)

\* C25: a write that returns False leaves the store as it was at the
\* destination name: an artifact that was there is still there and a read of
\* the name gives the payload it gave before, and where none was, none is.
C25_FailedWriteStep ==
    (/\ CallStep("write_file_to_disk")
     /\ last'.exc = NoError
     /\ last'.ret = Bool(FALSE)
     /\ PathLike(last'.args.file_name)) =>
        \A u \in UploadNames(last'.args.file_name, last'.args.include_datetime) :
            /\ IsFile(fs', u.s) <=> IsFile(fs, u.s)
            /\ IsFile(fs, u.s) => fs'.files[u.s] = fs.files[u.s]
            /\ \A dtype_dict \in TypeHints :
                  read_file_from_disk(fs', PyStr(u.s), dtype_dict)
                      = read_file_from_disk(fs, PyStr(u.s), dtype_dict)

C25_FailedWriteLeavesStore == [][C25_FailedWriteStep]_vars

====
